---- MODULE Spec2Model ----
(***************************************************************************)
(* A model of deploydevices.py: one run of main() against the Dashboard    *)
(* organization it modifies.  Every HTTP request is one step; its status   *)
(* code is the environment's choice.  The organization's state (networks,  *)
(* inventory, licenses, devices of a network, bindings) persists, the      *)
(* locals of main() are per run.                                           *)
(***************************************************************************)
EXTENDS Naturals, Integers, Sequences, FiniteSets, TLC

\* ------------------------------------------------------------------ bounds

\* Longest serial list given with -s in a run of main().
MaxSerials == 2
\* Runs of the script against the same organization.
MaxRuns == 2
\* Serial list length in the runs that are repeated.
MaxRerunSerials == 1

\* ------------------------------------------------------- the organization

\* The sentinel the helpers return for "not found" and for "request failed".
Null == "null"
\* The sentinel as a model string (a string is a sequence of characters).
NullModel == <<"n", "u", "l", "l">>

DefaultHost == "dashboard.meraki.com"
ShardHost == "n1.meraki.com"
OrgId == "org1"
TemplateId == "tmpl1"
\* Ids the upstream gives to networks, in order of creation.
NetIdPool == <<"N1", "N2", "N3", "N4">>

\* What -s can name: device serials and a license key.  The inventory reports
\* a model string for a device serial; nothing in the script constrains that
\* string, so the universe holds the usual product names and the three
\* strings line 355 compares with.
Serials == {"Q-MR", "Q-MS", "Q-MX", "Q-Z1", "Q-MV", "Q-mr", "Q-ms", "Q-mx", "LIC"}

IsDevice(s) == s /= "LIC"

ModelOf(s) ==
    CASE s = "Q-MR" -> <<"M", "R", "3", "4">>
      [] s = "Q-MS" -> <<"M", "S", "2", "2">>
      [] s = "Q-MX" -> <<"M", "X", "6", "4">>
      [] s = "Q-Z1" -> <<"Z", "1">>
      [] s = "Q-MV" -> <<"M", "V", "2", "1">>
      [] s = "Q-mr" -> <<"m", "r">>
      [] s = "Q-ms" -> <<"m", "s">>
      [] s = "Q-mx" -> <<"m", "x">>
      [] OTHER -> NullModel

\* All sequences over S of length lo..hi.
SeqsOf(S, lo, hi) == UNION {[1..n -> S] : n \in lo..hi}

VARIABLES
    \* the organization, as the upstream holds it
    cloudNets,       \* ids of the networks named arg_nwname, in listing order
    cloudTemplate,   \* a template named arg_template exists
    cloudInv,        \* serials in the organization's inventory
    cloudLic,        \* license keys claimed
    cloudNetDev,     \* <<network id, serial>>: devices of a network
    cloudFields,     \* <<network id, serial, field>>: device fields written
    cloudBound,      \* <<network id, template id, autoBind>>: bindings
    \* main()
    pc, exitcode, run,
    arg_serial, arg_address, stoponerror,
    orgid, shardurl, nwid, templateid,
    i, models, deviceinfo, devicetypes, nwtypestring,
    validserials, k,
    \* every request issued, in order
    reqs

cloud == <<cloudNets, cloudTemplate, cloudInv, cloudLic, cloudNetDev,
           cloudFields, cloudBound>>
args == <<arg_serial, arg_address, stoponerror>>
locals == <<orgid, shardurl, nwid, templateid, i, models, deviceinfo,
            devicetypes, nwtypestring, validserials, k>>
vars == <<cloud, args, locals, pc, exitcode, run, reqs>>

\* A request whose helper has the default host written in, as getorgid has.
Req_DefaultHost(op, host, serial, nw, tmpl, auto, field, ok, ret) ==
    [op |-> op, host |-> DefaultHost, serial |-> serial, nw |-> nw,
     tmpl |-> tmpl, auto |-> auto, field |-> field, ok |-> ok, ret |-> ret,
     run |-> run]

\* A logged request.  serial, nw, tmpl, auto, field are "-" where the request
\* has none; ok is the status the upstream answered with, ret what the helper
\* that issued the request returned to its caller.
Req(op, host, serial, nw, tmpl, auto, field, ok, ret) ==
    [op |-> op, host |-> host, serial |-> serial, nw |-> nw, tmpl |-> tmpl,
     auto |-> auto, field |-> field, ok |-> ok, ret |-> ret, run |-> run]

Log(r) == reqs' = Append(reqs, r)

\* sys.exit() without the code, as line 244 has it: exit code 0.
Exit_NoCode(code) == pc' = "done" /\ exitcode' = 0

\* sys.exit(code), and the return from main() as exit code 0.
Exit(code) == pc' = "done" /\ exitcode' = code

\* ---------------------------------------------------------------- helpers

\* getnwid whose scan never matches the name (it compares another field).
getnwid_NoMatch(ok, nets) == Null

\* getnwid with a sentinel of its own for a failed listing.
getnwid_FailureDistinct(ok, nets) ==
    IF ~ok THEN "error"
    ELSE IF nets /= <<>> THEN Head(nets) ELSE Null

\* getnwid: the id of the first listed network of that name; 'null' when the
\* listing fails or holds none.
getnwid(ok, nets) ==
    IF ~ok THEN Null
    ELSE IF nets /= <<>> THEN Head(nets) ELSE Null

\* gettemplateid: as getnwid, over the configuration templates.
gettemplateid(ok, exists) ==
    IF ~ok THEN Null
    ELSE IF exists THEN TemplateId ELSE Null

\* getorgdeviceinfo: the inventory record of the serial, or the record with
\* serial and model 'null' when the listing fails or lacks the serial.
getorgdeviceinfo(ok, inv, serial) ==
    IF ~ok THEN [serial |-> Null, model |-> NullModel]
    ELSE IF serial \in inv THEN [serial |-> serial, model |-> ModelOf(serial)]
    ELSE [serial |-> Null, model |-> NullModel]

\* getdeviceinfo: the device record of the network, or the 'null' record on a
\* non-success status (the device is not in the network).
getdeviceinfo(ok, netdev, nw, serial) ==
    IF ~(ok /\ <<nw, serial>> \in netdev)
    THEN [serial |-> Null, model |-> NullModel]
    ELSE [serial |-> serial, model |-> ModelOf(serial)]

\* record[:2]
Prefix2(m) == SubSeq(m, 1, IF Len(m) < 2 THEN Len(m) ELSE 2)

NoTypes == [mx |-> FALSE, ms |-> FALSE, mr |-> FALSE]

\* One pass of the loop of lines 313-319.
ClassifyRecord(dt, record) ==
    IF Prefix2(record) = <<"M", "X">> \/ Prefix2(record) = <<"Z", "1">>
    THEN [dt EXCEPT !.mx = TRUE]
    ELSE IF Prefix2(record) = <<"M", "S">>
    THEN [dt EXCEPT !.ms = TRUE]
    ELSE IF Prefix2(record) = <<"M", "R">>
    THEN [dt EXCEPT !.mr = TRUE]
    ELSE dt

RECURSIVE ClassifyFrom(_, _, _)
ClassifyFrom(dt, ms, n) ==
    IF n > Len(ms) THEN dt
    ELSE ClassifyFrom(ClassifyRecord(dt, ms[n]), ms, n + 1)

\* devicetypes after the loop over devicelist['model'].
DeviceTypes(ms) == ClassifyFrom(NoTypes, ms, 1)

\* nwtypestring as lines 322-332 build it.
BuildNwTypeString(dt) ==
    LET s0 == ""
        s1 == IF dt.mr THEN s0 \o "wireless" ELSE s0
        s2 == IF Len(s1) > 0 THEN s1 \o " " ELSE s1
        s3 == IF dt.ms THEN s2 \o "switch" ELSE s2
        s4 == IF Len(s3) > 0 THEN s3 \o " " ELSE s3
        s5 == IF dt.mx THEN s4 \o "appliance" ELSE s4
    IN  s5

\* The test of line 355 on one entry of devicelist['model'].
IsValidModel(m) == m = <<"m", "r">> \/ m = <<"m", "s">> \/ m = <<"m", "x">>

RECURSIVE ValidFrom(_, _, _)
ValidFrom(serials, ms, n) ==
    IF n > Len(serials) THEN <<>>
    ELSE (IF IsValidModel(ms[n]) THEN <<serials[n]>> ELSE <<>>)
         \o ValidFrom(serials, ms, n + 1)

\* validserials after the loop of lines 354-356.
ValidSerials(serials, ms) == ValidFrom(serials, ms, 1)

\* The type createnw posts (lines 105-109).
PostedNwType(type) ==
    IF type = "combined" THEN "wireless switch appliance" ELSE type

\* Line 377 passing the access-point flag instead of the switch flag.
AutoBindArg_Mr(dt) == dt.mr

\* The autoBind argument main() passes to bindnw (line 377).
AutoBindArg(dt) == dt.ms

\* bindnw's autobindvalue (lines 137-140).
AutoBindValue(autobind) == IF autobind THEN "true" ELSE "false"

\* The tests of lines 306 and 364 never true (the record compared with None).
IsUnresolved_Never(info) == FALSE

\* The test of lines 306 and 364 inverted.
IsUnresolved_Inverted(info) == info.serial /= Null

\* The test of lines 306 and 364 on a device record.
IsUnresolved(info) == info.serial = Null

\* Line 286 dropped: an existing network never stops the run.
NetworkExistsFatal_Never(id, stop) == FALSE

\* Line 286 with the flag inverted: stops on an existing network only under
\* ignore_error.
NetworkExistsFatal_Inverted(id, stop) == id /= Null /\ ~stop

\* The test of line 286.
NetworkExistsFatal(id, stop) == id /= Null /\ stop

\* Line 378 without the flag: a failed bind is always fatal.
BindFatal_NoFlag(status, stop) == status = Null

\* The test of line 378.
BindFatal(status, stop) == status = Null /\ stop

\* Line 292 comparing with a value gettemplateid never returns.
TemplateMissing_Never(id) == FALSE

\* The test of line 292.
TemplateMissing(id) == id = Null

\* Line 101 inverted: createnw skips when the network is absent.
AlreadyExists_Inverted(res) == res = Null

\* The test of line 101 on getnwid's result.
AlreadyExists(res) == res /= Null

\* Line 348 dropped: the id is not looked at after the creation.
NewNetworkMissing_Never(id) == FALSE

\* Line 348 inverted.
NewNetworkMissing_Inverted(id) == id /= Null

\* The test of line 348.
NewNetworkMissing(id) == id = Null

\* ------------------------------------------------------------------- Init

InitCloud ==
    /\ cloudNets \in {<<>>, <<NetIdPool[1]>>}
    /\ cloudTemplate \in BOOLEAN
    /\ cloudInv = {}
    /\ cloudLic = {}
    /\ cloudNetDev = {}
    /\ cloudFields = {}
    /\ cloudBound = {}

InitLocals ==
    /\ orgid = Null
    /\ shardurl = Null
    /\ nwid = Null
    /\ templateid = Null
    /\ i = 0
    /\ models = <<>>
    /\ deviceinfo = [serial |-> Null, model |-> NullModel]
    /\ devicetypes = NoTypes
    /\ nwtypestring = ""
    /\ validserials = <<>>
    /\ k = 0

Init ==
    /\ InitCloud
    /\ InitLocals
    /\ arg_serial \in SeqsOf(Serials, 1, MaxSerials)
    /\ arg_address \in BOOLEAN
    /\ stoponerror \in BOOLEAN
    /\ pc = "getorgid"
    /\ exitcode = -1
    /\ run = 1
    /\ reqs = <<>>

\* ---------------------------------------------------------------- main()

\* Lines 272-276.
GetOrgId ==
    /\ pc = "getorgid"
    /\ \E ok \in BOOLEAN :
         /\ orgid' = IF ok THEN OrgId ELSE Null
         /\ Log(Req("getorgs", DefaultHost, "-", "-", "-", "-", "-", ok, orgid'))
         /\ IF orgid' = Null THEN Exit(2)
            ELSE pc' = "getshardurl" /\ UNCHANGED exitcode
    /\ UNCHANGED <<cloud, args, run, shardurl, nwid, templateid, i, models,
                   deviceinfo, devicetypes, nwtypestring, validserials, k>>

\* Lines 278-282.
GetShardUrl ==
    /\ pc = "getshardurl"
    /\ \E ok \in BOOLEAN :
         /\ shardurl' = IF ok THEN ShardHost ELSE Null
         /\ Log(Req("getshard", DefaultHost, "-", "-", "-", "-", "-", ok, shardurl'))
         /\ IF shardurl' = Null THEN Exit(2)
            ELSE pc' = "getnwid" /\ UNCHANGED exitcode
    /\ UNCHANGED <<cloud, args, run, orgid, nwid, templateid, i, models,
                   deviceinfo, devicetypes, nwtypestring, validserials, k>>

\* Lines 284-288.
GetNwIdFirst ==
    /\ pc = "getnwid"
    /\ \E ok \in BOOLEAN :
         /\ nwid' = getnwid(ok, cloudNets)
         /\ Log(Req("listnets", shardurl, "-", "-", "-", "-", "-", ok, nwid'))
         /\ IF NetworkExistsFatal(nwid', stoponerror) THEN Exit(2)
            ELSE pc' = "gettemplateid" /\ UNCHANGED exitcode
    /\ UNCHANGED <<cloud, args, run, orgid, shardurl, templateid, i, models,
                   deviceinfo, devicetypes, nwtypestring, validserials, k>>

\* Lines 290-299.
GetTemplateId ==
    /\ pc = "gettemplateid"
    /\ \E ok \in BOOLEAN :
         /\ templateid' = gettemplateid(ok, cloudTemplate)
         /\ Log(Req("listtemplates", shardurl, "-", "-", "-", "-", "-", ok,
                    templateid'))
         /\ IF TemplateMissing(templateid') THEN Exit(2) /\ UNCHANGED i
            ELSE pc' = "claimdeviceorg" /\ i' = 1 /\ UNCHANGED exitcode
    /\ UNCHANGED <<cloud, args, run, orgid, shardurl, nwid, models,
                   deviceinfo, devicetypes, nwtypestring, validserials, k>>

\* Line 302 with the status of the claim looked at: a failed claim is fatal.
ClaimDeviceOrg_Checked ==
    /\ pc = "claimdeviceorg"
    /\ \E ok \in BOOLEAN :
         /\ Log(Req("claimorg", shardurl, arg_serial[i], "-", "-", "-", "-", ok, "0"))
         /\ cloudInv' = IF ok /\ IsDevice(arg_serial[i])
                        THEN cloudInv \cup {arg_serial[i]} ELSE cloudInv
         /\ IF ok THEN pc' = "getorgdeviceinfo" /\ UNCHANGED exitcode
            ELSE Exit(2)
    /\ UNCHANGED <<cloudNets, cloudTemplate, cloudLic, cloudNetDev, cloudFields,
                   cloudBound, args, locals, run>>

\* Line 302: claimdeviceorg; its response is not looked at.
ClaimDeviceOrg ==
    /\ pc = "claimdeviceorg"
    /\ \E ok \in BOOLEAN :
         /\ Log(Req("claimorg", shardurl, arg_serial[i], "-", "-", "-", "-", ok, "0"))
         /\ cloudInv' = IF ok /\ IsDevice(arg_serial[i])
                        THEN cloudInv \cup {arg_serial[i]} ELSE cloudInv
    /\ pc' = "getorgdeviceinfo"
    /\ UNCHANGED <<cloudNets, cloudTemplate, cloudLic, cloudNetDev, cloudFields,
                   cloudBound, args, locals, exitcode, run>>

\* The end of one pass of the loop of lines 301-309: line 309, then the next
\* serial or the code after the loop.
NextSerial ==
    /\ models' = Append(models, deviceinfo'.model)
    /\ IF i < Len(arg_serial)
       THEN i' = i + 1 /\ pc' = "claimdeviceorg"
       ELSE i' = i /\ pc' = "classify"

\* Lines 304-307 (and 309 when the serial is in the inventory).
GetOrgDeviceInfo ==
    /\ pc = "getorgdeviceinfo"
    /\ \E ok \in BOOLEAN :
         /\ deviceinfo' = getorgdeviceinfo(ok, cloudInv, arg_serial[i])
         /\ Log(Req("inventory", shardurl, arg_serial[i], "-", "-", "-", "-", ok,
                    deviceinfo'.serial))
    /\ IF IsUnresolved(deviceinfo')
       THEN pc' = "claimlicenseorg" /\ UNCHANGED <<models, i>>
       ELSE NextSerial
    /\ UNCHANGED <<cloud, args, exitcode, run, orgid, shardurl, nwid, templateid,
                   devicetypes, nwtypestring, validserials, k>>

\* Lines 308-309: claimlicenseorg; its response is not looked at.
ClaimLicenseOrg ==
    /\ pc = "claimlicenseorg"
    /\ \E ok \in BOOLEAN :
         /\ Log(Req("claimlicense", shardurl, arg_serial[i], "-", "-", "-", "-", ok, "0"))
         /\ cloudLic' = IF ok /\ ~IsDevice(arg_serial[i])
                        THEN cloudLic \cup {arg_serial[i]} ELSE cloudLic
    /\ deviceinfo' = deviceinfo
    /\ NextSerial
    /\ UNCHANGED <<cloudNets, cloudTemplate, cloudInv, cloudNetDev, cloudFields,
                   cloudBound, args, exitcode, run, orgid, shardurl, nwid,
                   templateid, devicetypes, nwtypestring, validserials, k>>

\* Lines 311-342: the device types, the network type string, and the choice
\* between creating the network and using the one found.
Classify ==
    /\ pc = "classify"
    /\ devicetypes' = DeviceTypes(models)
    /\ nwtypestring' = BuildNwTypeString(devicetypes')
    /\ pc' = IF nwid = Null THEN "createnw" ELSE "validserials"
    /\ UNCHANGED <<cloud, args, exitcode, run, reqs, orgid, shardurl, nwid,
                   templateid, i, models, deviceinfo, validserials, k>>

\* createnw lines 99-103, and lines 344-346 of main() on its 'null'.
CreateNwCheck ==
    /\ pc = "createnw"
    /\ \E ok \in BOOLEAN :
         /\ Log(Req("listnets", shardurl, "-", "-", "-", "-", "-", ok,
                    getnwid(ok, cloudNets)))
         /\ IF AlreadyExists(getnwid(ok, cloudNets)) THEN Exit(2)
            ELSE pc' = "createnw_post" /\ UNCHANGED exitcode
    /\ UNCHANGED <<cloud, args, locals, run>>

\* createnw lines 105-116, and lines 344-346 of main() on its 'null'.  A
\* successful request adds a network with a new id.
CreateNwPost ==
    /\ pc = "createnw_post"
    /\ IF PostedNwType(nwtypestring) /= "systems manager"
       THEN /\ \E ok \in BOOLEAN :
                 /\ ok => Len(cloudNets) < Len(NetIdPool)
                 /\ Log(Req("createnet", shardurl, "-", "-", "-", "-",
                            PostedNwType(nwtypestring), ok, "ok"))
                 /\ cloudNets' = IF ok
                                 THEN Append(cloudNets, NetIdPool[Len(cloudNets) + 1])
                                 ELSE cloudNets
            /\ pc' = "getnwid_created"
            /\ UNCHANGED exitcode
       ELSE Exit(2) /\ UNCHANGED <<cloudNets, reqs>>
    /\ UNCHANGED <<cloudTemplate, cloudInv, cloudLic, cloudNetDev, cloudFields,
                   cloudBound, args, locals, run>>

\* Lines 347-350.
GetNwIdCreated ==
    /\ pc = "getnwid_created"
    /\ \E ok \in BOOLEAN :
         /\ nwid' = getnwid(ok, cloudNets)
         /\ Log(Req("listnets", shardurl, "-", "-", "-", "-", "-", ok, nwid'))
         /\ IF NewNetworkMissing(nwid') THEN Exit(2)
            ELSE pc' = "validserials" /\ UNCHANGED exitcode
    /\ UNCHANGED <<cloud, args, run, orgid, shardurl, templateid, i, models,
                   deviceinfo, devicetypes, nwtypestring, validserials, k>>

\* Lines 352-358: the serials to enroll, then the first of them or the bind.
FilterSerials ==
    /\ pc = "validserials"
    /\ validserials' = ValidSerials(arg_serial, models)
    /\ IF validserials' /= <<>>
       THEN k' = 1 /\ pc' = "claimdevice"
       ELSE k' = k /\ pc' = "bindnw"
    /\ UNCHANGED <<cloud, args, exitcode, run, reqs, orgid, shardurl, nwid,
                   templateid, i, models, deviceinfo, devicetypes, nwtypestring>>

\* Line 360: claimdevice; its response is not looked at.
ClaimDevice ==
    /\ pc = "claimdevice"
    /\ \E ok \in BOOLEAN :
         /\ Log(Req("claimnet", shardurl, validserials[k], nwid, "-", "-", "-", ok, "0"))
         /\ cloudNetDev' = IF ok /\ validserials[k] \in cloudInv
                           THEN cloudNetDev \cup {<<nwid, validserials[k]>>}
                           ELSE cloudNetDev
    /\ pc' = "getdeviceinfo"
    /\ UNCHANGED <<cloudNets, cloudTemplate, cloudInv, cloudLic, cloudFields,
                   cloudBound, args, locals, exitcode, run>>

\* Lines 362-366.
GetDeviceInfo ==
    /\ pc = "getdeviceinfo"
    /\ \E ok \in BOOLEAN :
         /\ deviceinfo' = getdeviceinfo(ok, cloudNetDev, nwid, validserials[k])
         /\ Log(Req("getdevice", shardurl, validserials[k], nwid, "-", "-", "-", ok,
                    deviceinfo'.serial))
    /\ IF IsUnresolved(deviceinfo') THEN Exit(2)
       ELSE pc' = "sethostname" /\ UNCHANGED exitcode
    /\ UNCHANGED <<cloud, args, run, orgid, shardurl, nwid, templateid, i,
                   models, devicetypes, nwtypestring, validserials, k>>

\* The end of one pass of the loop of lines 358-374.
NextValidSerial ==
    IF k < Len(validserials)
    THEN k' = k + 1 /\ pc' = "claimdevice"
    ELSE k' = k /\ pc' = "bindnw"

\* Lines 368-373: setdevicedata of the hostname.
SetHostname ==
    /\ pc = "sethostname"
    /\ \E ok \in BOOLEAN :
         /\ Log(Req("setfield", shardurl, validserials[k], nwid, "-", "-", "name", ok,
                    IF ok THEN "ok" ELSE Null))
         /\ cloudFields' = IF ok
                           THEN cloudFields \cup {<<nwid, validserials[k], "name">>}
                           ELSE cloudFields
    /\ IF arg_address
       THEN pc' = "setaddress" /\ k' = k
       ELSE NextValidSerial
    /\ UNCHANGED <<cloudNets, cloudTemplate, cloudInv, cloudLic, cloudNetDev,
                   cloudBound, args, exitcode, run, orgid, shardurl, nwid,
                   templateid, i, models, deviceinfo, devicetypes, nwtypestring,
                   validserials>>

\* Line 374: setdevicedata of the address.
SetAddress ==
    /\ pc = "setaddress"
    /\ \E ok \in BOOLEAN :
         /\ Log(Req("setfield", shardurl, validserials[k], nwid, "-", "-", "address", ok,
                    IF ok THEN "ok" ELSE Null))
         /\ cloudFields' = IF ok
                           THEN cloudFields \cup {<<nwid, validserials[k], "address">>}
                           ELSE cloudFields
    /\ NextValidSerial
    /\ UNCHANGED <<cloudNets, cloudTemplate, cloudInv, cloudLic, cloudNetDev,
                   cloudBound, args, exitcode, run, orgid, shardurl, nwid,
                   templateid, i, models, deviceinfo, devicetypes, nwtypestring,
                   validserials>>

\* Lines 376-382 and bindnw: the bind request, then exit code 2 or the end of
\* the script.
BindNw ==
    /\ pc = "bindnw"
    /\ \E ok \in BOOLEAN :
         LET auto == AutoBindValue(AutoBindArg(devicetypes))
             bindstatus == IF ok THEN "ok" ELSE Null
         IN  /\ Log(Req("bind", shardurl, "-", nwid, templateid, auto, "-", ok,
                     bindstatus))
             /\ cloudBound' = IF ok
                              THEN cloudBound \cup {<<nwid, templateid, auto>>}
                              ELSE cloudBound
             /\ IF BindFatal(bindstatus, stoponerror) THEN Exit(2) ELSE Exit(0)
    /\ UNCHANGED <<cloudNets, cloudTemplate, cloudInv, cloudLic, cloudNetDev,
                   cloudFields, args, locals, run>>

Next ==
    \/ GetOrgId
    \/ GetShardUrl
    \/ GetNwIdFirst
    \/ GetTemplateId
    \/ ClaimDeviceOrg
    \/ GetOrgDeviceInfo
    \/ ClaimLicenseOrg
    \/ Classify
    \/ CreateNwCheck
    \/ CreateNwPost
    \/ GetNwIdCreated
    \/ FilterSerials
    \/ ClaimDevice
    \/ GetDeviceInfo
    \/ SetHostname
    \/ SetAddress
    \/ BindNw

Spec == Init /\ [][Next]_vars

\* The steps of main() follow one another: no request is left waiting for
\* ever.
SpecFair == Spec /\ WF_vars(Next)

\* ------------------------------------------------------ the script re-run

\* The script is started again against the same organization with the same
\* arguments: the locals of main() start over, the organization stays.
Restart ==
    /\ pc = "done"
    /\ run < MaxRuns
    /\ run' = run + 1
    /\ pc' = "getorgid"
    /\ exitcode' = -1
    /\ orgid' = Null
    /\ shardurl' = Null
    /\ nwid' = Null
    /\ templateid' = Null
    /\ i' = 0
    /\ models' = <<>>
    /\ deviceinfo' = [serial |-> Null, model |-> NullModel]
    /\ devicetypes' = NoTypes
    /\ nwtypestring' = ""
    /\ validserials' = <<>>
    /\ k' = 0
    /\ UNCHANGED <<cloud, args, reqs>>

\* Runs with -m ignore_error.
InitRerun ==
    /\ InitCloud
    /\ InitLocals
    /\ arg_serial \in SeqsOf(Serials, 1, MaxRerunSerials)
    /\ arg_address \in BOOLEAN
    /\ stoponerror = FALSE
    /\ pc = "getorgid"
    /\ exitcode = -1
    /\ run = 1
    /\ reqs = <<>>

NextRerun == Next \/ Restart

SpecRerun == InitRerun /\ [][NextRerun]_vars

\* ----------------------------------------------------- reading the request log

\* The requests of one kind, in the order issued.
ReqsOf(op) == SelectSeq(reqs, LAMBDA r : r.op = op)

\* The serials of the requests of one kind, in the order issued.
SerialsOf(op) == [n \in 1..Len(ReqsOf(op)) |-> ReqsOf(op)[n].serial]

\* The run went through every stage, the bind included, and returned.
Completed == pc = "done" /\ exitcode = 0

\* The product family of the specification for a model string: by its first
\* two characters.
FamilyOf(m) ==
    LET p == Prefix2(m)
    IN  IF p = <<"M", "X">> \/ p = <<"Z", "1">> THEN "appliance"
        ELSE IF p = <<"M", "S">> THEN "switch"
        ELSE IF p = <<"M", "R">> THEN "access-point"
        ELSE "none"

\* The input serials whose resolved model has a family, in input order.
RECURSIVE RecognizedFrom(_)
RecognizedFrom(n) ==
    IF n > Len(models) THEN <<>>
    ELSE (IF FamilyOf(models[n]) /= "none" THEN <<arg_serial[n]>> ELSE <<>>)
         \o RecognizedFrom(n + 1)

\* ------------------------------------------------------------------ claims

\* C1: in a run that went through the enrollment stage, the claim-into-network
\* requests are exactly those of the input serials whose resolved model begins
\* with MX, Z1, MS or MR, in input order.  (Line 355 compares the whole model
\* string with 'mr', 'ms', 'mx', so an MR34 or MS22 device is never enrolled.)
C1_EnrollsRecognizedInOrder ==
    Completed => SerialsOf("claimnet") = RecognizedFrom(1)

\* The words of a sequence joined by single spaces.
RECURSIVE JoinWords(_)
JoinWords(ws) ==
    IF ws = <<>> THEN ""
    ELSE IF Len(ws) = 1 THEN ws[1]
    ELSE ws[1] \o " " \o JoinWords(Tail(ws))

\* The network type of the specification: "wireless", "switch", "appliance"
\* for the families present, in that order, joined by single spaces.
RefNwType(dt) ==
    JoinWords((IF dt.mr THEN <<"wireless">> ELSE <<>>)
              \o (IF dt.ms THEN <<"switch">> ELSE <<>>)
              \o (IF dt.mx THEN <<"appliance">> ELSE <<>>))

\* The network type string has been built (line 332 is passed).
TypeBuilt ==
    pc \in {"createnw", "createnw_post", "getnwid_created", "validserials",
            "claimdevice", "getdeviceinfo", "sethostname", "setaddress", "bindnw"}

\* C2: the network type string main() builds is the reference composition of
\* the families present.  (Lines 325-326 and 329-330 add a space after a word
\* whether or not a word follows: switch only gives "switch ", access point
\* only gives "wireless  ".)
C2_TypeStringIsReference ==
    TypeBuilt => nwtypestring = RefNwType(devicetypes)

\* A network of the target name was in the organization when the run started:
\* more are listed than the run's own successful create requests added.
ExistedAtStart ==
    Len(cloudNets) > Len(SelectSeq(reqs, LAMBDA r : r.op = "createnet" /\ r.ok))

NoCreateNoEnroll == ReqsOf("createnet") = <<>> /\ ReqsOf("claimnet") = <<>>

\* The initial listing of the networks and the one inside createnw both came
\* back with a non-success status.
FirstTwoListingsFailed ==
    /\ Len(ReqsOf("listnets")) >= 2
    /\ ~ReqsOf("listnets")[1].ok
    /\ ~ReqsOf("listnets")[2].ok

NetIdsUsed == {reqs[n].nw : n \in DOMAIN reqs} \ {"-"}

\* Every create-network request issued was answered with success.
CreatesSucceeded == \A n \in DOMAIN reqs : reqs[n].op = "createnet" => reqs[n].ok

\* Every listing of the networks in a run after the first was answered with
\* success.
LaterListingsSucceeded ==
    \A n \in DOMAIN reqs :
        (reqs[n].op = "listnets" /\ reqs[n].run > 1) => reqs[n].ok

StoppedAtNetworkLookup ==
    /\ pc = "done" /\ exitcode = 2
    /\ reqs /= <<>>
    /\ reqs[Len(reqs)].op = "listnets"

\* C5: with ignore_error set and the network there, the run reuses it: no
\* create-network request, and no fatal stop in the provisioning stage.
\* (createnw answers 'null' when its own check finds the network, and main()
\* takes that as 'Unable to create network' whatever the flag.)
C5_ReusesExistingNetwork ==
    (ExistedAtStart /\ ~stoponerror)
        => ReqsOf("createnet") = <<>> /\ ~StoppedAtNetworkLookup

\* Some input serial resolved to a model that begins with "MS".
SomeModelIsSwitch == \E n \in DOMAIN models : Prefix2(models[n]) = <<"M", "S">>

\* C6: every bind request carries autoBind true if and only if some input
\* serial resolved to a model whose first two characters are "MS".
C6_AutoBindIffSwitchModel ==
    \A n \in DOMAIN reqs :
        reqs[n].op = "bind"
            => reqs[n].auto = (IF SomeModelIsSwitch THEN "true" ELSE "false")

\* A bind with autoBind true, the switch being the second of two serials.
C6_Witness ==
    /\ Len(models) = 2
    /\ Prefix2(models[1]) /= <<"M", "S">>
    /\ Prefix2(models[2]) = <<"M", "S">>
    /\ ReqsOf("bind") /= <<>>
    /\ ReqsOf("bind")[1].auto = "true"

\* C7: every bind request carries autoBind true if and only if a switch was
\* among the devices a claim-into-network request was issued for.  (By line
\* 355 no device whose model begins with "MS" is ever enrolled; see C1.)
C7_AutoBindIffSwitchEnrolled ==
    \A n \in DOMAIN reqs :
        reqs[n].op = "bind"
            => (reqs[n].auto = "true"
                  <=> \E m \in DOMAIN reqs :
                         /\ reqs[m].op = "claimnet"
                         /\ FamilyOf(ModelOf(reqs[m].serial)) = "switch")

\* Some resolved model is of the family.
SomeModelOf(family) == \E n \in DOMAIN models : FamilyOf(models[n]) = family

\* C8: the device types are the OR of the families of the resolved models, and
\* a device without a family gets no claim-into-network request.  (Line 355
\* enrolls the models 'mr', 'ms', 'mx', which lines 314-319 give no family;
\* see C1.)
C8_FamiliesAndExclusion ==
    /\ TypeBuilt =>
          devicetypes = [mx |-> SomeModelOf("appliance"),
                         ms |-> SomeModelOf("switch"),
                         mr |-> SomeModelOf("access-point")]
    /\ \A n \in DOMAIN reqs :
          reqs[n].op = "claimnet" => FamilyOf(ModelOf(reqs[n].serial)) /= "none"

\* C9: a bind request is the last step of the run; a failed bind ends the run
\* with exit code 2 when ignore_error is not set and with exit code 0 when it
\* is, a successful bind with exit code 0.
C9_BindOutcomeDecidesExit ==
    \A n \in DOMAIN reqs :
        reqs[n].op = "bind"
            => /\ n = Len(reqs)
               /\ pc = "done"
               /\ exitcode = (IF ~reqs[n].ok /\ stoponerror THEN 2 ELSE 0)

\* A failed bind under ignore_error, and exit code 0.
C9_Witness ==
    /\ ~stoponerror
    /\ reqs /= <<>>
    /\ reqs[Len(reqs)].op = "bind" /\ ~reqs[Len(reqs)].ok
    /\ exitcode = 0

\* The loop over the input serials (lines 301-309) is finished.
OrgStageDone == pc = "classify" \/ TypeBuilt

\* The lookup of the n-th input serial in the inventory came back unresolved.
Unresolved(n) == ReqsOf("inventory")[n].ret = Null

\* Some input serial that resolved is of the family.
SomeResolvedOf(family) ==
    \E n \in DOMAIN arg_serial :
        ~Unresolved(n) /\ FamilyOf(ModelOf(arg_serial[n])) = family

\* How many entries of a sequence satisfy a test.
CountIn(seq, Test(_)) == Cardinality({n \in DOMAIN seq : Test(seq[n])})

\* C10: per input serial, in input order: an organization-claim request, then
\* an inventory lookup, then a license-claim request for the same serial if
\* and only if the lookup came back unresolved; an unresolved serial gives no
\* family to the device types or the network type and is not enrolled.
C10_OrgStagePerSerial ==
    /\ \A p \in DOMAIN reqs :
          /\ reqs[p].op = "claimorg" =>
                IF p = Len(reqs) THEN pc = "getorgdeviceinfo"
                ELSE /\ reqs[p + 1].op = "inventory"
                     /\ reqs[p + 1].serial = reqs[p].serial
          /\ reqs[p].op = "inventory" =>
                /\ p > 1
                /\ reqs[p - 1].op = "claimorg"
                /\ reqs[p - 1].serial = reqs[p].serial
                /\ (reqs[p].ret = Null) <=>
                      (IF p = Len(reqs) THEN pc = "claimlicenseorg"
                       ELSE /\ reqs[p + 1].op = "claimlicense"
                            /\ reqs[p + 1].serial = reqs[p].serial)
          /\ reqs[p].op = "claimlicense" =>
                /\ p > 1
                /\ reqs[p - 1].op = "inventory"
                /\ reqs[p - 1].ret = Null
                /\ reqs[p - 1].serial = reqs[p].serial
    /\ Len(ReqsOf("claimorg")) <= Len(arg_serial)
    /\ SerialsOf("claimorg") = SubSeq(arg_serial, 1, Len(ReqsOf("claimorg")))
    /\ OrgStageDone => Len(ReqsOf("claimorg")) = Len(arg_serial)
    /\ TypeBuilt =>
          /\ devicetypes = [mx |-> SomeResolvedOf("appliance"),
                            ms |-> SomeResolvedOf("switch"),
                            mr |-> SomeResolvedOf("access-point")]
          /\ (\A n \in DOMAIN arg_serial : Unresolved(n)) => nwtypestring = ""
    /\ \A s \in Serials :
          CountIn(ReqsOf("claimnet"), LAMBDA r : r.serial = s)
              <= Cardinality({n \in DOMAIN arg_serial :
                                 /\ arg_serial[n] = s
                                 /\ n <= Len(ReqsOf("inventory"))
                                 /\ ~Unresolved(n)})

\* Two serials, the first unresolved and license-claimed, the second resolved
\* and enrolled; the run is past the enrollment.
C10_Witness ==
    /\ Len(arg_serial) = 2
    /\ pc = "bindnw"
    /\ Unresolved(1) /\ ~Unresolved(2)
    /\ SerialsOf("claimlicense") = <<arg_serial[1]>>
    /\ SerialsOf("claimnet") = <<arg_serial[2]>>

\* The requests that change the organization.
WriteOps == {"claimorg", "claimlicense", "createnet", "claimnet", "setfield", "bind"}

\* The last request issued.
LastReq == reqs[Len(reqs)]

\* No request of the kinds has been issued.
NoneOf(ops) == \A n \in DOMAIN reqs : reqs[n].op \notin ops

\* C11: when the template is not resolved (absent, or its listing failed), the
\* run ends there with exit code 2, having issued no organization-claim,
\* license-claim, create-network, claim-into-network or bind request.
C11_TemplateMissingStops ==
    \A n \in DOMAIN reqs :
        (reqs[n].op = "listtemplates" /\ reqs[n].ret = Null)
            => /\ n = Len(reqs)
               /\ pc = "done" /\ exitcode = 2
               /\ NoneOf({"claimorg", "claimlicense", "createnet", "claimnet", "bind"})

\* The listing succeeded and holds no template of the name.
C11_Witness ==
    /\ ~cloudTemplate
    /\ reqs /= <<>>
    /\ LastReq.op = "listtemplates" /\ LastReq.ok /\ LastReq.ret = Null
    /\ pc = "done" /\ exitcode = 2

\* C12: a create-network request (createnw then reports success) is followed
\* by a lookup of the network by name; when that lookup returns no id, the run
\* ends there with exit code 2 and no claim-into-network, device-field or bind
\* request is issued.
C12_CreationIsVerified ==
    \A n \in DOMAIN reqs :
        reqs[n].op = "createnet"
            => IF n = Len(reqs) THEN pc = "getnwid_created"
               ELSE /\ reqs[n + 1].op = "listnets"
                    /\ reqs[n + 1].ret = Null
                          => /\ n + 1 = Len(reqs)
                             /\ pc = "done" /\ exitcode = 2
                             /\ NoneOf({"claimnet", "setfield", "bind"})

\* The create request failed upstream, the listing after it succeeded and does
\* not hold the network.
C12_Witness ==
    /\ Len(reqs) >= 2
    /\ reqs[Len(reqs) - 1].op = "createnet" /\ ~reqs[Len(reqs) - 1].ok
    /\ LastReq.op = "listnets" /\ LastReq.ok /\ LastReq.ret = Null
    /\ pc = "done" /\ exitcode = 2

\* C13: every request other than the two that resolve the organization and
\* its shard goes to the resolved shard host, not to the default host, and is
\* issued only after the shard was resolved; a failed shard resolution is the
\* last request of the run.
C13_RequestsTargetShard ==
    \A n \in DOMAIN reqs :
        /\ reqs[n].op \notin {"getorgs", "getshard"}
              => /\ reqs[n].host = ShardHost
                 /\ reqs[n].host /= DefaultHost
                 /\ \E m \in 1..(n - 1) :
                       /\ reqs[m].op = "getshard"
                       /\ reqs[m].run = reqs[n].run
                       /\ reqs[m].ret = reqs[n].host
        /\ (reqs[n].op = "getshard" /\ reqs[n].ret = Null)
              => n = Len(reqs) /\ pc = "done" /\ exitcode = 2

\* A run through all kinds of requests, the bind included, all to the shard.
C13_Witness ==
    /\ Completed
    /\ ReqsOf("setfield") /= <<>>
    /\ ReqsOf("createnet") /= <<>>
    /\ LastReq.op = "bind" /\ LastReq.host = ShardHost

\* The last request met one of the conditions main() stops on: lines 274, 280,
\* 286, 292, 344, 348, 364, 378.
FatalAtLast ==
    /\ reqs /= <<>>
    /\ \/ LastReq.op \in {"getorgs", "getshard", "listtemplates", "getdevice"}
          /\ LastReq.ret = Null
       \/ LastReq.op = "listnets"
          /\ \/ Len(ReqsOf("listnets")) = 1 /\ LastReq.ret /= Null /\ stoponerror
             \/ Len(ReqsOf("listnets")) = 2 /\ LastReq.ret /= Null
             \/ Len(ReqsOf("listnets")) = 3 /\ LastReq.ret = Null
       \/ LastReq.op = "bind" /\ LastReq.ret = Null /\ stoponerror

\* The most requests a run over n serials issues: four lookups, three to
\* provide the network, the bind, and per serial either the three of an
\* unresolved serial or the two of a resolved one and four to enroll it.
MostRequests(n) == 4 + 3 + 1 + 6 * n

\* A step issues one new request, or is one of the two computations between
\* the stages, which move on.
StepAdvances ==
    \/ Len(reqs') = Len(reqs) + 1
    \/ reqs' = reqs /\ pc = "classify" /\ pc' \in {"createnw", "validserials"}
    \/ reqs' = reqs /\ pc = "validserials" /\ pc' \in {"claimdevice", "bindnw"}

C15_CreateOnlyAfterNotFound ==
    \A n \in DOMAIN reqs :
        reqs[n].op = "createnet"
            => /\ n >= 3
               /\ reqs[n - 1].op = "listnets"
               /\ reqs[n - 1].run = reqs[n].run
               /\ reqs[n - 1].ret = Null
               /\ reqs[n - 2].op \in {"inventory", "claimlicense"}

\* A create request after a successful listing without the network.
C15_Witness ==
    /\ Len(reqs) >= 3
    /\ LastReq.op = "createnet"
    /\ reqs[Len(reqs) - 1].op = "listnets" /\ reqs[Len(reqs) - 1].ok
    /\ reqs[Len(reqs) - 1].ret = Null
    /\ LastReq.ok

ClaimOps == {"claimorg", "claimlicense", "claimnet"}

\* Where main() is after a claim request, from where it was before it.
AfterClaim ==
    CASE pc = "claimdeviceorg" -> "getorgdeviceinfo"
      [] pc = "claimdevice" -> "getdeviceinfo"
      [] pc = "claimlicenseorg" ->
            IF i < Len(arg_serial) THEN "claimdeviceorg" ELSE "classify"
      [] OTHER -> "done"

\* C16: the step after an organization-claim, license-claim or
\* claim-into-network request is fixed by where main() was before the request,
\* whatever the status of the response, and is never the exit.
C16_ClaimStatusIgnored ==
    [][(Len(reqs') = Len(reqs) + 1 /\ reqs'[Len(reqs')].op \in ClaimOps)
          => /\ pc' = AfterClaim
             /\ pc' /= "done"
             /\ exitcode' = exitcode]_vars

\* A run that completed although an organization claim and a license claim
\* were answered with a failure.
C16_Witness ==
    /\ Completed
    /\ \E n \in DOMAIN reqs : reqs[n].op = "claimorg" /\ ~reqs[n].ok
    /\ \E n \in DOMAIN reqs : reqs[n].op = "claimlicense" /\ ~reqs[n].ok

\* C17: when the device is not found in the network after its claim, the run
\* ends there with exit code 2: nothing is written for the device, no later
\* device is claimed, no bind is issued.
C17_EnrollmentFailureStops ==
    \A n \in DOMAIN reqs :
        (reqs[n].op = "getdevice" /\ reqs[n].ret = Null)
            => /\ n = Len(reqs)
               /\ pc = "done" /\ exitcode = 2
               /\ Len(ReqsOf("claimnet")) = k
               /\ NoneOf({"bind"})

\* The first of two devices to enroll is not found in the network.
C17_Witness ==
    /\ Len(validserials) = 2 /\ k = 1
    /\ reqs /= <<>>
    /\ LastReq.op = "getdevice" /\ LastReq.ret = Null
    /\ pc = "done" /\ exitcode = 2

\* The initial lookup of the network (line 285), once issued.
FirstLookup == ReqsOf("listnets")[1]

\* C18: an initial listing that failed is handled as one that succeeded and
\* held no network of the name, whatever the flag: the lookup returns 'null',
\* main() goes on to the template with nwid 'null', and after the
\* classification it calls createnw.
C18_FailedListingAsAbsent ==
    (ReqsOf("listnets") /= <<>> /\ (~FirstLookup.ok \/ ~ExistedAtStart))
        => /\ FirstLookup.ret = Null
           /\ Len(reqs) = 3 =>
                 pc = "gettemplateid" /\ nwid = Null /\ exitcode = -1
           /\ TypeBuilt => pc = "createnw" \/ Len(ReqsOf("listnets")) >= 2

\* The network is there, ignore_error is not set, the initial listing failed,
\* and the run is at createnw.
C18_Witness ==
    /\ ExistedAtStart /\ stoponerror
    /\ ReqsOf("listnets") /= <<>>
    /\ ~FirstLookup.ok
    /\ pc = "createnw"

\* The requests of one kind in one run.
ReqsOfRun(op, r) == SelectSeq(reqs, LAMBDA q : q.op = op /\ q.run = r)

\* C19: per run at most one bind and one create-network request; a bind or
\* claim-into-network request carries a network id that a lookup of the run
\* returned, a bind also the template id; the bind is the last request of its
\* run, after the organization claim of every serial.
C19_OneBindResolvedIds ==
    /\ \A r \in 1..run :
          /\ Len(ReqsOfRun("bind", r)) <= 1
          /\ Len(ReqsOfRun("createnet", r)) <= 1
    /\ \A n \in DOMAIN reqs :
          /\ reqs[n].op \in {"bind", "claimnet"}
                => /\ reqs[n].nw \notin {Null, "-"}
                   /\ \E m \in 1..(n - 1) :
                         /\ reqs[m].op = "listnets"
                         /\ reqs[m].run = reqs[n].run
                         /\ reqs[m].ret = reqs[n].nw
          /\ reqs[n].op = "bind"
                => /\ reqs[n].tmpl = TemplateId
                   /\ Len(ReqsOfRun("claimorg", reqs[n].run)) = Len(arg_serial)
                   /\ \A m \in DOMAIN reqs :
                         (m > n /\ reqs[m].run = reqs[n].run) => FALSE

\* A run that created the network, enrolled a device and bound the network.
C19_Witness ==
    /\ Completed
    /\ Len(ReqsOf("createnet")) = 1
    /\ Len(ReqsOf("claimnet")) >= 1
    /\ Len(ReqsOf("bind")) = 1
    /\ LastReq.nw = nwid /\ nwid /= Null

ReadOps == {"getorgs", "getshard", "listnets", "listtemplates", "inventory",
            "getdevice"}

\* C20: when the initial lookup returns an id and ignore_error is not set, the
\* run ends there with exit code 2 having issued its three lookups only, and
\* the organization is as it was: inventory, licenses, networks, devices of
\* the network, device fields and bindings.
C20_StopLeavesOrganization ==
    (ReqsOf("listnets") /= <<>> /\ FirstLookup.ret /= Null /\ stoponerror)
        => /\ pc = "done" /\ exitcode = 2
           /\ Len(reqs) = 3
           /\ \A n \in DOMAIN reqs : reqs[n].op \in ReadOps
           /\ cloudNets = <<FirstLookup.ret>>
           /\ cloudInv = {} /\ cloudLic = {}
           /\ cloudNetDev = {} /\ cloudFields = {} /\ cloudBound = {}

\* The run stopped at line 288 with the organization untouched.
C20_Witness ==
    /\ stoponerror
    /\ ReqsOf("listnets") /= <<>>
    /\ FirstLookup.ret = NetIdPool[1]
    /\ pc = "done" /\ exitcode = 2
    /\ cloudInv = {} /\ cloudNets = <<NetIdPool[1]>>

====
